---- MODULE Spec2Model ----
(***************************************************************************)
(* The book repository of greenlight (internal/data/books.go), the store   *)
(* it talks to (the books table of migrations/000001) and the HTTP         *)
(* handlers that call it (cmd/api/books.go).                               *)
(*                                                                         *)
(* Every repository call is one SQL statement sent over a pooled           *)
(* connection.  A caller p goes idle -> stmt -> returned, by way of acquire *)
(* when the pool is exhausted: the call builds its arguments and its       *)
(* context and acquires a connection, the store executes the statement     *)
(* atomically (or fails, or the deadline of the context expires), and the  *)
(* call returns its error and the caller's entity as the call left it.     *)
(***************************************************************************)
EXTENDS Integers, Sequences, FiniteSets, TLC

\* ------------------------------------------------------------------ bounds
NProcs == 2
MaxStmts == 3
MaxRequests == 3
MaxFailures == 1
\* the highest version a stored row is at when the handlers find it
MaxVersion == 33

Procs == 1..NProcs

\* ------------------------------------------------------- program constants
TitleMaxBytes == 500
MinYear == 1888
CurrentYear == 2026
MinGenres == 1
MaxGenres == 5
MaxPages == 10000
MaxOpenConns == 25
\* context.WithTimeout(context.Background(), 3*time.Second), in seconds
DeadlineUnits == 3
InitialVersion == 1
FirstId == 1

\* ---------------------------------------------------------------- entities
\* A Go []string: the nil slice and the empty slice are different values.
NilSlice == [nil |-> TRUE, elems |-> <<>>]

Slice(s) == [nil |-> FALSE, elems |-> s]

\* The zero value of the Books struct.
Books == [ID |-> 0, CreatedAt |-> 0, Title |-> "", Sales |-> 0, Pages |-> 0,
          Year |-> 0, Runtime |-> 0, Genres |-> NilSlice, Version |-> 0]

RECURSIVE Repeat(_, _)
Repeat(s, n) ==
    IF n = 0 THEN ""
    ELSE LET half == Repeat(s, n \div 2)
         IN  IF n % 2 = 0 THEN half \o half ELSE half \o half \o s

LongTitle == Repeat("x", TitleMaxBytes + 1)

\* validator.Unique: no value occurs twice.
Unique(s) == \A i, j \in 1..Len(s) : s[i] = s[j] => i = j

\* validator.Check(ok, key, message): the failed checks, in call order.
Check(ok, key, message) == IF ok THEN <<>> ELSE << <<key, message>> >>

\* A slip: the validator stops at the first check that fails.
ValidateBookFailFast(book) ==
    IF book.Title = "" THEN Check(FALSE, "title", "must be provided")
    ELSE IF Len(book.Title) > TitleMaxBytes
    THEN Check(FALSE, "title", "must not be more than 500 bytes long")
    ELSE IF book.Year = 0 \/ book.Year < MinYear \/ book.Year > CurrentYear
    THEN Check(FALSE, "year", "must be provided")
    ELSE IF book.Runtime <= 0 THEN Check(FALSE, "runtime", "must be provided")
    ELSE IF \/ book.Genres.nil
            \/ Len(book.Genres.elems) < MinGenres
            \/ Len(book.Genres.elems) > MaxGenres
            \/ ~Unique(book.Genres.elems)
    THEN Check(FALSE, "genres", "must be provided")
    ELSE IF book.Sales < 0 THEN Check(FALSE, "sales", "must positive")
    ELSE Check(book.Pages >= 0 /\ book.Pages <= MaxPages, "pages", "must be positive")

ValidateBook(book) ==
    Check(book.Title # "", "title", "must be provided")
    \o Check(Len(book.Title) <= TitleMaxBytes, "title", "must not be more than 500 bytes long")
    \o Check(book.Year # 0, "year", "must be provided")
    \o Check(book.Year >= MinYear, "year", "must be greater than 1888")
    \o Check(book.Year <= CurrentYear, "year", "must not be in the future")
    \o Check(book.Runtime # 0, "runtime", "must be provided")
    \o Check(book.Runtime > 0, "runtime", "must be a positive integer")
    \o Check(~book.Genres.nil, "genres", "must be provided")
    \o Check(Len(book.Genres.elems) >= MinGenres, "genres", "must contain at least 1 genre")
    \o Check(Len(book.Genres.elems) <= MaxGenres, "genres", "must not contain more than 5 genres")
    \o Check(Unique(book.Genres.elems), "genres", "must not contain duplicate values")
    \o Check(book.Sales >= 0, "sales", "must positive")
    \o Check(book.Pages >= 0, "pages", "must be positive")
    \o Check(book.Pages <= MaxPages, "pages", "must be less than 10000")

\* validator.Valid: no check failed.
Valid(errors) == errors = <<>>

\* validator.Errors after the checks: each key with the message of its first
\* failed check.
Errors(checks) ==
    [key \in {checks[i][1] : i \in DOMAIN checks} |->
        checks[CHOOSE i \in DOMAIN checks :
                  /\ checks[i][1] = key
                  /\ \A j \in DOMAIN checks : checks[j][1] = key => i <= j][2]]

\* ------------------------------------------------------------------ inputs
Input(title, sales, pages, year, runtime, genres) ==
    [Books EXCEPT !.Title = title, !.Sales = sales, !.Pages = pages,
                  !.Year = year, !.Runtime = runtime, !.Genres = genres]

Dune == Input("dune", 100, 412, 1965, 1, Slice(<<"scifi">>))

Emma == Input("emma", 0, MaxPages, CurrentYear, 2, Slice(<<"drama", "scifi">>))

NoTitle == Input("", 100, 412, 1965, 1, Slice(<<"scifi">>))

Future == Input(LongTitle, -1, MaxPages + 1, CurrentYear + 1, 0, Slice(<<"a", "a">>))

NoGenres == Input("dune", 100, 412, 1965, 1, NilSlice)

InputBooks == {Dune, Emma, NoTitle, Future, NoGenres}

\* The books the callers of Insert pass: two valid ones and one the table refuses.
InsertBooks == {Dune, Emma, NoGenres}

Ids == {0, 1, 2}


\* ------------------------------------------------------------------- store
\* One row of the books table.  genres is NOT NULL, so a stored array is never
\* the NULL a nil slice encodes to.
Row(id, created_at, sales, pages, title, year, runtime, genres, version) ==
    [id |-> id, created_at |-> created_at, sales |-> sales, pages |-> pages,
     title |-> title, year |-> year, runtime |-> runtime, genres |-> genres,
     version |-> version]

\* The columns a SELECT of the whole row returns, scanned into a Books struct.
ScanBook(row) ==
    [ID |-> row.id, CreatedAt |-> row.created_at, Title |-> row.title,
     Sales |-> row.sales, Pages |-> row.pages, Year |-> row.year,
     Runtime |-> row.runtime, Genres |-> Slice(row.genres), Version |-> row.version]

\* ------------------------------------------------------------------ driver
\* A statement argument as the driver sends it: the value with its wire type.
TextArg(v) == [type |-> "text", v |-> v]

IntArg(v) == [type |-> "int", v |-> v]

ArrayArg(v) == [type |-> "text[]", v |-> v]

\* The driver prepares the statement, learns the type of each placeholder and
\* refuses to run the statement unless it is given exactly one argument per
\* placeholder, each encodable as the placeholder's type.
Bind(params, args) ==
    /\ Len(args) = Len(params)
    /\ \A i \in 1..Len(params) : args[i].type = params[i]

\* A slip: the driver's no-row error is not recognised.
IsNoRowsNever(err) == FALSE

\* errors.Is(err, sql.ErrNoRows): the error of a QueryRow().Scan() that found
\* no row.
IsNoRows(err) == err = "ErrNoRows"

\* The error a statement ends with when the store does not answer: the
\* connection is lost or the context's deadline passes.
StoreFailures == {"ErrConn", "ErrDeadline"}

\* --------------------------------------------------------------- statements
\* INSERT INTO books (title, sales, pages, year, runtime, genres)
\* VALUES ($1, $2, $3, $4, $5, $6) RETURNING id, created_at, version
InsertParams == <<"text", "int", "int", "int", "int", "text[]">>

InsertArgs(books) ==
    <<TextArg(books.Title), IntArg(books.Sales), IntArg(books.Pages), IntArg(books.Year),
      IntArg(books.Runtime), ArrayArg(books.Genres)>>

\* A slip in the column list: sales and pages change places.
InsertRowSwapped(id, created_at, args) ==
    Row(id, created_at, args[3].v, args[2].v, args[1].v, args[4].v, args[5].v,
        args[6].v.elems, InitialVersion)

\* A slip: the id column has no sequence behind it and every row gets the
\* first id.
InsertRowFirstId(id, created_at, args) ==
    Row(FirstId, created_at, args[2].v, args[3].v, args[1].v, args[4].v, args[5].v,
        args[6].v.elems, InitialVersion)

\* The inserted row: id, created_at and version take their column defaults.
InsertRow(id, created_at, args) ==
    Row(id, created_at, args[2].v, args[3].v, args[1].v, args[4].v, args[5].v,
        args[6].v.elems, InitialVersion)

\* SELECT ... FROM books WHERE id = $1
GetParams == <<"int">>

GetArgs(id) == <<IntArg(id)>>

SelectById(tbl, args) ==
    IF args[1].v \in DOMAIN tbl THEN << tbl[args[1].v] >> ELSE <<>>

\* DELETE FROM books WHERE id = $1
DeleteParams == <<"int">>

DeleteArgs(id) == <<IntArg(id)>>

\* A slip: the statement deletes nothing.
DeleteByIdKeeps(tbl, args) == tbl

\* The rows that remain after the DELETE.
DeleteById(tbl, args) == [i \in DOMAIN tbl \ {args[1].v} |-> tbl[i]]

\* A slip: the result always reports that no row was deleted.
RowsAffectedNone(tbl, args) == 0

RowsAffected(tbl, args) == IF args[1].v \in DOMAIN tbl THEN 1 ELSE 0

\* to_tsvector('simple', text): the lexemes of a text.  The titles and queries
\* of this model are single lower-case words, or empty.
Lexemes(text) == IF text = "" THEN {} ELSE {text}

Elems(s) == {s[i] : i \in 1..Len(s)}

\* WHERE (to_tsvector('simple', title) @@ plainto_tsquery('simple', $1) OR $1 = '')
\*   AND (genres @> $2 OR $2 = '{}')
Matches(row, title, genres) ==
    /\ \/ Lexemes(title) # {} /\ Lexemes(title) \subseteq Lexemes(row.title)
       \/ title = ""
    /\ \/ Elems(genres.elems) \subseteq Elems(row.genres)
       \/ genres.elems = <<>>

Search(tbl, title, genres) ==
    {tbl[i] : i \in {j \in DOMAIN tbl : Matches(tbl[j], title, genres)}}

\* The statement of Update: the search query, with two placeholders.
UpdateParams == <<"text", "text[]">>

UpdateArgs(book) ==
    <<TextArg(book.Title), IntArg(book.Year), IntArg(book.Sales), IntArg(book.Pages),
      IntArg(book.Runtime), ArrayArg(book.Genres), IntArg(book.ID), IntArg(book.Version)>>

\* The columns the statement of Update selects.
UpdateColumns ==
    <<"id", "created_at", "title", "sales", "pages", "year", "runtime", "genres", "version">>

\* The destinations of Update's Scan: &book.Version.
UpdateDests == <<"Version">>


\* ---------------------------------------------------------- calls, results
\* data.Filters: the paging and sorting part of a list request.
Filters == [Page |-> 0, PageSize |-> 0, Sort |-> "", SortSafelist |-> <<>>, Sales |-> 0]

\* data.Metadata, all fields zero.
Metadata == [CurrentPage |-> 0, PageSize |-> 0, FirstPage |-> 0, LastPage |-> 0,
             TotalRecords |-> 0]

\* A *Books: nil, or a pointer to an entity.
NilBook == <<>>

Ptr(book) == <<book>>

\* A repository call in flight: the method and its arguments.
NoCall == [op |-> "none", book |-> Books, id |-> 0, title |-> "", sales |-> 0,
           pages |-> 0, genres |-> NilSlice, filters |-> Filters, elapsed |-> 0]

\* What a repository call returned: its error, the entity it returns or wrote
\* into (Insert, Get, Update), and the page and metadata of GetAll.
NoRet == [err |-> "none", book |-> NilBook, books |-> NilSlice, metadata |-> Metadata]

VARIABLES
    table,      \* the books table: id -> row
    nextId,     \* the next value of the bigserial sequence behind books.id
    stmts,      \* statements the store has received
    failures,   \* statements the store did not answer
    pool,       \* the pool: its MaxConns and the callers that hold a connection
    pc,         \* where each caller is in its repository call
    call,       \* the call each caller is making
    ret,        \* what the call returned
    fresh,      \* id -> the entity Insert wrote back, until an Update or a Delete changes the row
    req,        \* the HTTP request each handler is serving
    hpc,        \* where each handler is in its code
    resp,       \* the response each handler wrote
    requests    \* HTTP requests accepted so far

store == <<table, nextId, stmts, failures>>

repo == <<pool, pc, call, ret, fresh>>

http == <<req, hpc, resp, requests>>

vars == <<table, nextId, stmts, failures, pool, pc, call, ret, fresh, req, hpc, resp, requests>>

\* pgxpool.NewWithConfig after configurePool: no connection is acquired yet
NewPool(maxOpenConns) == [MaxConns |-> maxOpenConns, acquired |-> {}]

RepoInit ==
    /\ table = <<>>
    /\ nextId = FirstId
    /\ stmts = 0
    /\ failures = 0
    /\ pool = NewPool(MaxOpenConns)
    /\ pc = [p \in Procs |-> "idle"]
    /\ call = [p \in Procs |-> NoCall]
    /\ ret = [p \in Procs |-> NoRet]
    /\ fresh = <<>>

\* The pool has a connection nobody holds.
HasFree == Cardinality(pool.acquired) < pool.MaxConns

\* A method that sends a statement: the arguments and the 3-second context are
\* built, and the pool hands the call a connection when one is free; the call
\* waits for one otherwise.
Begin(p, c) ==
    /\ pool' = IF HasFree THEN [pool EXCEPT !.acquired = @ \cup {p}] ELSE pool
    /\ pc' = [pc EXCEPT ![p] = IF HasFree THEN "stmt" ELSE "acquire"]
    /\ call' = [call EXCEPT ![p] = c]
    /\ ret' = [ret EXCEPT ![p] = NoRet]
    /\ UNCHANGED <<store, fresh>>

\* A waiting call is handed the connection another call has released.
Acquire(p) ==
    /\ pc[p] = "acquire"
    /\ HasFree
    /\ pool' = [pool EXCEPT !.acquired = @ \cup {p}]
    /\ pc' = [pc EXCEPT ![p] = "stmt"]
    /\ UNCHANGED <<store, call, ret, fresh, http>>

\* A method that returns before it sends anything.
ShortCircuit(p, c, r) ==
    /\ pc' = [pc EXCEPT ![p] = "returned"]
    /\ call' = [call EXCEPT ![p] = c]
    /\ ret' = [ret EXCEPT ![p] = r]
    /\ UNCHANGED <<store, pool, fresh>>

InsertBegin(p, books) == Begin(p, [NoCall EXCEPT !.op = "Insert", !.book = books])

\* A slip: no shortcut for ids below 1.
GetBeginAlways(p, id) == Begin(p, [NoCall EXCEPT !.op = "Get", !.id = id])

GetBegin(p, id) ==
    LET c == [NoCall EXCEPT !.op = "Get", !.id = id]
    IN  IF id < 1
        THEN ShortCircuit(p, c, [NoRet EXCEPT !.err = "ErrRecordNotFound"])
        ELSE Begin(p, c)

UpdateBegin(p, book) == Begin(p, [NoCall EXCEPT !.op = "Update", !.book = book])

DeleteBegin(p, id) ==
    LET c == [NoCall EXCEPT !.op = "Delete", !.id = id]
    IN  IF id < 1
        THEN ShortCircuit(p, c, [NoRet EXCEPT !.err = "ErrRecordNotFound"])
        ELSE Begin(p, c)

\* A slip: the method returns while its rows still hold the connection.
ReturnKeeps(p, r) ==
    /\ pc' = [pc EXCEPT ![p] = "returned"]
    /\ ret' = [ret EXCEPT ![p] = r]
    /\ pool' = pool
    /\ stmts' = stmts + 1
    /\ UNCHANGED call

\* The statement has ended: the connection goes back to the pool and the
\* method returns r.
Return(p, r) ==
    /\ pc' = [pc EXCEPT ![p] = "returned"]
    /\ ret' = [ret EXCEPT ![p] = r]
    /\ pool' = [pool EXCEPT !.acquired = @ \ {p}]
    /\ stmts' = stmts + 1
    /\ UNCHANGED call

\* A slip: a context without a deadline is never done.
NoDeadline(p) == TRUE

\* The context of the call is not done yet.
InTime(p) == call[p].elapsed < DeadlineUnits

\* A unit of time passes for a call that waits for the pool or the store.
Tick(p) ==
    /\ pc[p] \in {"acquire", "stmt"}
    /\ InTime(p)
    /\ call' = [call EXCEPT ![p].elapsed = @ + 1]
    /\ UNCHANGED <<store, pool, pc, ret, fresh, http>>

\* The deadline of the context expires before the pool or the store has
\* answered: the driver gives up the statement, the connection goes back to
\* the pool, and the method returns the context's error as it is.
Expire(p) ==
    /\ pc[p] \in {"acquire", "stmt"}
    /\ ~InTime(p)
    /\ pc' = [pc EXCEPT ![p] = "returned"]
    /\ ret' = [ret EXCEPT ![p] =
                  [NoRet EXCEPT !.err = "ErrDeadline",
                                !.book = IF call[p].op \in {"Insert", "Update"}
                                         THEN Ptr(call[p].book) ELSE NilBook]]
    /\ pool' = [pool EXCEPT !.acquired = @ \ {p}]
    /\ stmts' = IF pc[p] = "stmt" THEN stmts + 1 ELSE stmts
    /\ UNCHANGED <<table, nextId, failures, call, fresh, http>>

\* The store does not answer the statement: it has no effect and the driver's
\* error is returned as it is.
StoreFail(p) ==
    /\ pc[p] = "stmt"
    /\ InTime(p)
    /\ failures < MaxFailures
    /\ failures' = failures + 1
    /\ \E e \in StoreFailures :
          Return(p, [NoRet EXCEPT !.err = e,
                                  !.book = IF call[p].op \in {"Insert", "Update"}
                                           THEN Ptr(call[p].book) ELSE NilBook])
    /\ UNCHANGED <<table, nextId, fresh, http>>

\* NOW(): the store's clock, which ticks with every id it hands out.
Now == nextId - FirstId

Without(f, id) == [i \in DOMAIN f \ {id} |-> f[i]]

\* BookModel.Insert
ExecInsert(p) ==
    /\ pc[p] = "stmt"
    /\ InTime(p)
    /\ call[p].op = "Insert"
    /\ LET books == call[p].book
           args == InsertArgs(books)
       IN  IF ~Bind(InsertParams, args)
           THEN /\ Return(p, [NoRet EXCEPT !.err = "ErrArgs", !.book = Ptr(books)])
                /\ UNCHANGED <<table, nextId, fresh>>
           ELSE IF args[6].v.nil
           THEN \* genres is NOT NULL; the id drawn from the sequence is lost
                /\ Return(p, [NoRet EXCEPT !.err = "ErrConstraint", !.book = Ptr(books)])
                /\ nextId' = nextId + 1
                /\ UNCHANGED <<table, fresh>>
           ELSE LET row == InsertRow(nextId, Now, args)
                    written == [books EXCEPT !.ID = row.id,
                                             !.CreatedAt = row.created_at,
                                             !.Version = row.version]
                IN  /\ table' = table @@ (row.id :> row)
                    /\ nextId' = nextId + 1
                    /\ fresh' = fresh @@ (row.id :> written)
                    /\ Return(p, [NoRet EXCEPT !.err = "nil", !.book = Ptr(written)])
    /\ UNCHANGED <<failures, http>>

\* BookModel.Get
ExecGet(p) ==
    /\ pc[p] = "stmt"
    /\ InTime(p)
    /\ call[p].op = "Get"
    /\ LET args == GetArgs(call[p].id)
           rows == SelectById(table, args)
           err == IF ~Bind(GetParams, args) THEN "ErrArgs"
                  ELSE IF rows = <<>> THEN "ErrNoRows" ELSE "nil"
       IN  IF err # "nil"
           THEN IF IsNoRows(err)
                THEN Return(p, [NoRet EXCEPT !.err = "ErrRecordNotFound"])
                ELSE Return(p, [NoRet EXCEPT !.err = err])
           ELSE Return(p, [NoRet EXCEPT !.err = "nil", !.book = Ptr(ScanBook(rows[1]))])
    /\ UNCHANGED <<table, nextId, failures, fresh, http>>


\* A slip: the statement raises the version of the row of the id it is given.
UpdateRowsBump(tbl, args) ==
    [id \in DOMAIN tbl |->
        IF Len(args) >= 7 /\ id = args[7].v
        THEN [tbl[id] EXCEPT !.version = @ + 1] ELSE tbl[id]]

\* The rows Update's statement leaves behind: it is a SELECT and writes nothing.
UpdateRows(tbl, args) == tbl

FirstById(rows) == CHOOSE r \in rows : \A q \in rows : r.id <= q.id

\* m.DB.QueryRow(ctx, query, args...).Scan(&book.Version): the error, and the
\* value scanned into book.Version when there is none.
UpdateScan(tbl, args) ==
    IF ~Bind(UpdateParams, args)
    THEN [err |-> "ErrArgs", version |-> 0]
    ELSE LET rows == Search(tbl, args[1].v, args[2].v)
         IN  IF rows = {}
             THEN [err |-> "ErrNoRows", version |-> 0]
             ELSE IF Len(UpdateColumns) # Len(UpdateDests)
             THEN [err |-> "ErrScan", version |-> 0]
             ELSE [err |-> "nil", version |-> FirstById(rows).id]

\* BookModel.Update
ExecUpdate(p) ==
    /\ pc[p] = "stmt"
    /\ InTime(p)
    /\ call[p].op = "Update"
    /\ LET book == call[p].book
           args == UpdateArgs(book)
           scan == UpdateScan(table, args)
       IN  /\ table' = UpdateRows(table, args)
           /\ fresh' = IF scan.err # "nil" /\ UpdateRows(table, args) = table
                       THEN fresh ELSE Without(fresh, book.ID)
           /\ IF scan.err # "nil"
              THEN IF IsNoRows(scan.err)
                   THEN Return(p, [NoRet EXCEPT !.err = "ErrEditConflict", !.book = Ptr(book)])
                   ELSE Return(p, [NoRet EXCEPT !.err = scan.err, !.book = Ptr(book)])
              ELSE Return(p, [NoRet EXCEPT !.err = "nil",
                                           !.book = Ptr([book EXCEPT !.Version = scan.version])])
    /\ UNCHANGED <<nextId, failures, http>>

\* BookModel.Delete
ExecDelete(p) ==
    /\ pc[p] = "stmt"
    /\ InTime(p)
    /\ call[p].op = "Delete"
    /\ LET args == DeleteArgs(call[p].id)
       IN  IF ~Bind(DeleteParams, args)
           THEN /\ Return(p, [NoRet EXCEPT !.err = "ErrArgs"])
                /\ UNCHANGED <<table, fresh>>
           ELSE LET rowsAffected == RowsAffected(table, args)
                IN  /\ table' = DeleteById(table, args)
                    /\ fresh' = Without(fresh, call[p].id)
                    /\ IF rowsAffected = 0
                       THEN Return(p, [NoRet EXCEPT !.err = "ErrRecordNotFound"])
                       ELSE Return(p, [NoRet EXCEPT !.err = "nil"])
    /\ UNCHANGED <<nextId, failures, http>>


\* ----------------------------------------------------------------- listing
\* The sort values the list handler permits.
SortSafelist ==
    <<"id", "title", "sales", "pages", "year", "runtime",
      "-id", "-sales", "-pages", "-title", "-year", "-runtime">>

\* strings.HasPrefix(sort, "-") and strings.TrimPrefix(sort, "-"), on the
\* sort values of this model.
HasDash(sort) == sort \in {"-id", "-sales", "-pages", "-title", "-year", "-runtime", "-isbn"}

TrimDash(sort) ==
    CASE sort = "-id" -> "id"
      [] sort = "-sales" -> "sales"
      [] sort = "-pages" -> "pages"
      [] sort = "-title" -> "title"
      [] sort = "-year" -> "year"
      [] sort = "-runtime" -> "runtime"
      [] sort = "-isbn" -> "isbn"
      [] OTHER -> sort

\* Filters.sortColumn: the requested field, resolved through the safelist.
sortColumn(f) ==
    IF \E i \in 1..Len(f.SortSafelist) : f.SortSafelist[i] = f.Sort
    THEN TrimDash(f.Sort)
    ELSE "panic"

\* Filters.sortDirection
sortDirection(f) == IF HasDash(f.Sort) THEN "DESC" ELSE "ASC"

\* Filters.limit and Filters.offset
limit(f) == f.PageSize

offset(f) == (f.Page - 1) * f.PageSize

\* calculateMetadata
calculateMetadata(totalRecords, page, pageSize) ==
    IF totalRecords = 0
    THEN Metadata
    ELSE [CurrentPage |-> page, PageSize |-> pageSize, FirstPage |-> 1,
          LastPage |-> (totalRecords + pageSize - 1) \div pageSize,
          TotalRecords |-> totalRecords]

\* The collation order of the titles of this model.
TitleOrder == <<"", "dune", "emma", LongTitle>>

TitleRank(title) == CHOOSE i \in 1..Len(TitleOrder) : TitleOrder[i] = title

SortKey(row, column) ==
    CASE column = "id" -> row.id
      [] column = "title" -> TitleRank(row.title)
      [] column = "sales" -> row.sales
      [] column = "pages" -> row.pages
      [] column = "year" -> row.year
      [] column = "runtime" -> row.runtime

\* ORDER BY <column> <direction>, id ASC
Before(a, b, column, direction) ==
    IF SortKey(a, column) # SortKey(b, column)
    THEN IF direction = "ASC"
         THEN SortKey(a, column) < SortKey(b, column)
         ELSE SortKey(a, column) > SortKey(b, column)
    ELSE a.id < b.id

RECURSIVE OrderBy(_, _, _)
OrderBy(rows, column, direction) ==
    IF rows = {} THEN <<>>
    ELSE LET first == CHOOSE r \in rows :
                          \A q \in rows \ {r} : Before(r, q, column, direction)
         IN  <<first>> \o OrderBy(rows \ {first}, column, direction)

Min(a, b) == IF a < b THEN a ELSE b

\* LIMIT n OFFSET k
LimitOffset(rows, n, k) == SubSeq(rows, k + 1, Min(Len(rows), k + n))

\* The statement of GetAll, with four placeholders:
\* WHERE (title matches $1) AND (genres @> $2) ... LIMIT $3 OFFSET $4
GetAllParams == <<"text", "text[]", "int", "int">>

GetAllArgs(title, sales, pages, genres, filters) ==
    <<TextArg(title), IntArg(sales), IntArg(pages), ArrayArg(genres),
      IntArg(limit(filters)), IntArg(offset(filters))>>

\* The result set: each row of the page with count(*) OVER(), the number of
\* rows the WHERE clause matches.
GetAllRows(tbl, args, filters) ==
    LET matching == Search(tbl, args[1].v, args[2].v)
        page == LimitOffset(OrderBy(matching, sortColumn(filters), sortDirection(filters)),
                            args[3].v, args[4].v)
    IN  [i \in 1..Len(page) |-> [count |-> Cardinality(matching), row |-> page[i]]]

\* The rows.Next() loop: totalRecords holds the count column of the last row
\* scanned, and 0 when no row was scanned.
RECURSIVE ScanTotal(_, _)
ScanTotal(rows, totalRecords) ==
    IF rows = <<>> THEN totalRecords ELSE ScanTotal(Tail(rows), Head(rows).count)

GetAllBegin(p, title, sales, pages, genres, filters) ==
    Begin(p, [NoCall EXCEPT !.op = "GetAll", !.title = title, !.sales = sales,
                            !.pages = pages, !.genres = genres, !.filters = filters])

\* BookModel.GetAll
ExecGetAll(p) ==
    /\ pc[p] = "stmt"
    /\ InTime(p)
    /\ call[p].op = "GetAll"
    /\ LET filters == call[p].filters
           args == GetAllArgs(call[p].title, call[p].sales, call[p].pages,
                              call[p].genres, filters)
       IN  IF ~Bind(GetAllParams, args)
           THEN Return(p, [NoRet EXCEPT !.err = "ErrArgs"])
           ELSE LET rows == GetAllRows(table, args, filters)
                    books == [i \in 1..Len(rows) |-> ScanBook(rows[i].row)]
                    totalRecords == ScanTotal(rows, 0)
                IN  Return(p, [NoRet EXCEPT
                                  !.err = "nil",
                                  !.books = Slice(books),
                                  !.metadata = calculateMetadata(totalRecords, filters.Page,
                                                                 filters.PageSize)])
    /\ UNCHANGED <<table, nextId, failures, fresh, http>>


\* --------------------------------------------------------- HTTP requests
\* An optional field of a request body (a Go pointer): absent or present.
Absent == <<>>

Present(v) == <<v>>

\* An HTTP request: the :id parameter (and whether readIDParam accepts it), the
\* X-Expected-Version header, whether the body is readable JSON, the fields
\* of the body, and the filters of the query string (and whether readInt could
\* not parse one of its integers).
NoReq == [kind |-> "none", idError |-> FALSE, id |-> 0, expected |-> "", readable |-> TRUE,
          title |-> Absent, sales |-> Absent, pages |-> Absent, year |-> Absent,
          runtime |-> Absent, genres |-> NilSlice, filters |-> Filters, intError |-> FALSE]

\* A response: its status, the book or the books and metadata of its envelope,
\* and its field errors.
NoResp == [status |-> 0, book |-> NilBook, errors |-> <<>>, books |-> NilSlice,
           metadata |-> Metadata]

HttpInit ==
    /\ req = [p \in Procs |-> NoReq]
    /\ hpc = [p \in Procs |-> "idle"]
    /\ resp = [p \in Procs |-> NoResp]
    /\ requests = 0

Init == RepoInit /\ HttpInit

\* ------------------------------------------------- callers of the repository
\* The versions a caller of Update may have observed.
Versions == {InitialVersion, InitialVersion + 1}

UpdateBooks == {[Emma EXCEPT !.ID = FirstId, !.Version = v] : v \in Versions}

\* The list calls: all rows by id, and a search whose page lies past the end.
ListCalls ==
    {[title |-> "", genres |-> Slice(<<>>),
      filters |-> [Filters EXCEPT !.Page = 1, !.PageSize = 2, !.Sort = "id",
                                  !.SortSafelist = SortSafelist]],
     [title |-> "dune", genres |-> Slice(<<"scifi">>),
      filters |-> [Filters EXCEPT !.Page = 2, !.PageSize = 1, !.Sort = "-title",
                                  !.SortSafelist = SortSafelist]]}

\* The statements sent and in flight are below the bound of the run.
CanSend == stmts + Cardinality({q \in Procs : pc[q] \in {"acquire", "stmt"}}) < MaxStmts

ClientInsert(p) ==
    /\ pc[p] = "idle"
    /\ CanSend
    /\ \E books \in InsertBooks : InsertBegin(p, books)
    /\ UNCHANGED http

ClientGet(p) ==
    /\ pc[p] = "idle"
    /\ CanSend
    /\ \E id \in Ids : GetBegin(p, id)
    /\ UNCHANGED http

ClientUpdate(p) ==
    /\ pc[p] = "idle"
    /\ CanSend
    /\ \E book \in UpdateBooks : UpdateBegin(p, book)
    /\ UNCHANGED http

ClientDelete(p) ==
    /\ pc[p] = "idle"
    /\ CanSend
    /\ \E id \in Ids : DeleteBegin(p, id)
    /\ UNCHANGED http

ClientGetAll(p) ==
    /\ pc[p] = "idle"
    /\ CanSend
    /\ \E c \in ListCalls : GetAllBegin(p, c.title, 0, 0, c.genres, c.filters)
    /\ UNCHANGED http

\* The caller has read what the call returned.
ClientDone(p) ==
    /\ pc[p] = "returned"
    /\ pc' = [pc EXCEPT ![p] = "idle"]
    /\ call' = [call EXCEPT ![p] = NoCall]
    /\ ret' = [ret EXCEPT ![p] = NoRet]
    /\ UNCHANGED <<store, pool, fresh, http>>

\* ------------------------------------------------------------ HTTP handlers
Digits ==
    <<"0", "1", "2", "3", "4", "5", "6", "7", "8", "9", "a", "b", "c", "d", "e", "f",
      "g", "h", "i", "j", "k", "l", "m", "n", "o", "p", "q", "r", "s", "t", "u", "v">>

\* strconv.FormatInt(i, base), for i >= 0
RECURSIVE FormatInt(_, _)
FormatInt(i, base) ==
    IF i < base THEN Digits[i + 1]
    ELSE FormatInt(i \div base, base) \o Digits[(i % base) + 1]

\* A slip: the handler goes on whatever the validator found.
neverFailedValidation(book) == FALSE

\* if data.ValidateBook(v, book); !v.Valid()
failedValidation(book) == ~Valid(ValidateBook(book))

\* The handler writes its response and is done.
Respond(p, status, book) ==
    /\ resp' = [resp EXCEPT ![p] = [NoResp EXCEPT !.status = status, !.book = book]]
    /\ hpc' = [hpc EXCEPT ![p] = "idle"]
    /\ req' = [req EXCEPT ![p] = NoReq]

\* app.failedValidationResponse(w, r, v.Errors)
failedValidationResponse(p, errors) ==
    /\ resp' = [resp EXCEPT ![p] = [NoResp EXCEPT !.status = 422, !.errors = errors]]
    /\ hpc' = [hpc EXCEPT ![p] = "idle"]
    /\ req' = [req EXCEPT ![p] = NoReq]

\* The handler goes on to wait for the repository call it made.
Await(p, r, at) ==
    /\ resp' = [resp EXCEPT ![p] = NoResp]
    /\ hpc' = [hpc EXCEPT ![p] = at]
    /\ req' = [req EXCEPT ![p] = r]

\* The repository call the handler waited for is consumed.
Consume(p) ==
    /\ pc' = [pc EXCEPT ![p] = "idle"]
    /\ call' = [call EXCEPT ![p] = NoCall]
    /\ ret' = [ret EXCEPT ![p] = NoRet]
    /\ UNCHANGED <<store, pool, fresh>>

Value(field) == field[1]

\* The bodies of create requests: every field of an input book.
CreateRequests ==
    {[NoReq EXCEPT !.kind = "create", !.readable = r, !.title = Present(b.Title),
                   !.sales = Present(b.Sales), !.pages = Present(b.Pages),
                   !.year = Present(b.Year), !.runtime = Present(b.Runtime),
                   !.genres = b.Genres] :
        b \in InputBooks, r \in BOOLEAN}

\* createBookHandler, up to its call of Insert
createBookHandler(p) ==
    /\ hpc[p] = "idle"
    /\ pc[p] = "idle"
    /\ requests < MaxRequests
    /\ requests' = requests + 1
    /\ \E r \in CreateRequests :
          IF ~r.readable
          THEN Respond(p, 400, NilBook) /\ UNCHANGED <<store, repo>>
          ELSE LET book == [Books EXCEPT !.Title = Value(r.title),
                                         !.Sales = Value(r.sales),
                                         !.Pages = Value(r.pages),
                                         !.Year = Value(r.year),
                                         !.Runtime = Value(r.runtime),
                                         !.Genres = r.genres]
               IN  IF failedValidation(book)
                   THEN /\ failedValidationResponse(p, Errors(ValidateBook(book)))
                        /\ UNCHANGED <<store, repo>>
                   ELSE InsertBegin(p, book) /\ Await(p, r, "insert")

\* createBookHandler, from the return of Insert
createBookRespond(p) ==
    /\ hpc[p] = "insert"
    /\ pc[p] = "returned"
    /\ IF ret[p].err # "nil"
       THEN Respond(p, 500, NilBook)
       ELSE Respond(p, 201, ret[p].book)
    /\ Consume(p)
    /\ UNCHANGED requests

\* The bodies of update requests: each field present or absent.
NoBody ==
    [title |-> Absent, sales |-> Absent, pages |-> Absent, year |-> Absent,
     runtime |-> Absent, genres |-> NilSlice]

UpdateRequests ==
    {[NoReq EXCEPT !.kind = "update", !.idError = f[1], !.id = f[2], !.expected = f[3],
                   !.readable = f[4], !.title = f[5].title, !.sales = f[5].sales,
                   !.pages = f[5].pages, !.year = f[5].year, !.runtime = f[5].runtime,
                   !.genres = f[5].genres] :
        f \in {<<FALSE, 1, "", TRUE, [NoBody EXCEPT !.title = Present("emma"),
                                                     !.sales = Present(7),
                                                     !.genres = Slice(<<"drama">>)]>>,
               <<FALSE, 1, "1", TRUE, [NoBody EXCEPT !.year = Present(CurrentYear),
                                                      !.pages = Present(0),
                                                      !.runtime = Present(2)]>>,
               <<FALSE, 1, "2", TRUE, [NoBody EXCEPT !.title = Present("emma")]>>,
               <<FALSE, 1, "", TRUE, [NoBody EXCEPT !.year = Present(CurrentYear + 1)]>>,
               <<FALSE, 1, "", TRUE, [NoBody EXCEPT !.genres = Slice(<<>>)]>>,
               <<FALSE, 1, "", FALSE, NoBody>>,
               <<FALSE, 2, "", TRUE, NoBody>>,
               <<TRUE, 0, "", TRUE, NoBody>>}}

\* updateBookHandler on request r, up to its call of Get
updateBookRequest(p, r) ==
    IF r.idError
    THEN Respond(p, 404, NilBook) /\ UNCHANGED <<store, repo>>
    ELSE GetBegin(p, r.id) /\ Await(p, r, "get")

updateBookHandler(p) ==
    /\ hpc[p] = "idle"
    /\ pc[p] = "idle"
    /\ requests < MaxRequests
    /\ requests' = requests + 1
    /\ \E r \in UpdateRequests : updateBookRequest(p, r)

\* A slip: the body replaces the entity, absent fields and all.
MergeReplace(book, r) ==
    [book EXCEPT !.Title = IF r.title # Absent THEN Value(r.title) ELSE "",
                 !.Sales = IF r.sales # Absent THEN Value(r.sales) ELSE 0,
                 !.Pages = IF r.pages # Absent THEN Value(r.pages) ELSE 0,
                 !.Year = IF r.year # Absent THEN Value(r.year) ELSE 0,
                 !.Runtime = IF r.runtime # Absent THEN Value(r.runtime) ELSE 0,
                 !.Genres = r.genres]

\* The fields present in the request, written over the fetched entity.
Merge(book, r) ==
    [book EXCEPT !.Title = IF r.title # Absent THEN Value(r.title) ELSE @,
                 !.Sales = IF r.sales # Absent THEN Value(r.sales) ELSE @,
                 !.Pages = IF r.pages # Absent THEN Value(r.pages) ELSE @,
                 !.Year = IF r.year # Absent THEN Value(r.year) ELSE @,
                 !.Runtime = IF r.runtime # Absent THEN Value(r.runtime) ELSE @,
                 !.Genres = IF ~r.genres.nil THEN r.genres ELSE @]

\* The base in which the handler writes the fetched version to compare it with
\* the X-Expected-Version header.
VersionBase == 32

\* updateBookHandler, from the return of Get up to its call of Update
updateBookMerge(p) ==
    /\ hpc[p] = "get"
    /\ pc[p] = "returned"
    /\ LET r == req[p]
       IN  IF ret[p].err # "nil"
           THEN /\ IF ret[p].err = "ErrRecordNotFound"
                   THEN Respond(p, 404, NilBook)
                   ELSE Respond(p, 500, NilBook)
                /\ Consume(p)
           ELSE LET book == ret[p].book[1]
                IN  IF r.expected # "" /\ FormatInt(book.Version, VersionBase) # r.expected
                    THEN Respond(p, 409, NilBook) /\ Consume(p)
                    ELSE IF ~r.readable
                    THEN Respond(p, 400, NilBook) /\ Consume(p)
                    ELSE IF failedValidation(Merge(book, r))
                    THEN /\ failedValidationResponse(p, Errors(ValidateBook(Merge(book, r))))
                         /\ Consume(p)
                    ELSE UpdateBegin(p, Merge(book, r)) /\ Await(p, r, "update")
    /\ UNCHANGED requests

\* updateBookHandler, from the return of Update
updateBookRespond(p) ==
    /\ hpc[p] = "update"
    /\ pc[p] = "returned"
    /\ IF ret[p].err # "nil"
       THEN IF ret[p].err = "ErrEditConflict"
            THEN Respond(p, 409, NilBook)
            ELSE Respond(p, 500, NilBook)
       ELSE Respond(p, 200, ret[p].book)
    /\ Consume(p)
    /\ UNCHANGED requests

\* data.ValidateFilters: page and page size within their bounds, sort value in
\* the safelist.
ValidateFilters(f) ==
    Check(f.Page > 0, "page", "must be greater than zero")
    \o Check(f.PageSize > 0, "page_size", "must be greater than zero")
    \o Check(f.PageSize <= 100, "page_size", "must be a maximum of 100")
    \o Check(\E i \in 1..Len(f.SortSafelist) : f.SortSafelist[i] = f.Sort,
             "sort", "invalid sort value")

\* The query strings of list requests: the defaults, a descending sort, a sort
\* value outside the safelist, a page and a page size out of bounds, and a
\* page that is not an integer (readInt keeps the default and adds an error).
ListRequests ==
    {[NoReq EXCEPT !.kind = "list", !.title = Present(""), !.genres = Slice(<<>>),
                   !.intError = f[4],
                   !.filters = [Filters EXCEPT !.Page = f[1], !.PageSize = f[2],
                                               !.Sort = f[3]]] :
        f \in {<<1, 20, "id", FALSE>>,
               <<1, 20, "-title", FALSE>>,
               <<1, 20, "-isbn", FALSE>>,
               <<0, 20, "id", FALSE>>,
               <<1, 101, "id", FALSE>>,
               <<1, 20, "id", TRUE>>}}

\* app.readInt's errors, in v before ValidateFilters adds its own
readIntChecks(r) == Check(~r.intError, "page", "must be an integer value")

\* A slip: the handler goes on whatever the validator found.
neverFailedFilters(r, filters) == FALSE

\* if data.ValidateFilters(v, input.Filters); !v.Valid()
failedFilters(r, filters) == ~Valid(readIntChecks(r) \o ValidateFilters(filters))

\* listBooksHandler, up to its call of GetAll
listBooksHandler(p) ==
    /\ hpc[p] = "idle"
    /\ pc[p] = "idle"
    /\ requests < MaxRequests
    /\ requests' = requests + 1
    /\ \E r \in ListRequests :
          LET filters == [r.filters EXCEPT !.SortSafelist = SortSafelist]
          IN  IF failedFilters(r, filters)
              THEN /\ failedValidationResponse(
                          p, Errors(readIntChecks(r) \o ValidateFilters(filters)))
                   /\ UNCHANGED <<store, repo>>
              ELSE /\ GetAllBegin(p, Value(r.title), 0, 0, r.genres, filters)
                   /\ Await(p, r, "list")

\* listBooksHandler, from the return of GetAll
listBooksRespond(p) ==
    /\ hpc[p] = "list"
    /\ pc[p] = "returned"
    /\ IF ret[p].err # "nil"
       THEN Respond(p, 500, NilBook)
       ELSE /\ resp' = [resp EXCEPT ![p] = [NoResp EXCEPT !.status = 200,
                                                          !.books = ret[p].books,
                                                          !.metadata = ret[p].metadata]]
            /\ hpc' = [hpc EXCEPT ![p] = "idle"]
            /\ req' = [req EXCEPT ![p] = NoReq]
    /\ Consume(p)
    /\ UNCHANGED requests

Next ==
    \E p \in Procs :
        \/ ClientInsert(p)
        \/ ClientGet(p)
        \/ ClientUpdate(p)
        \/ ClientDelete(p)
        \/ ClientGetAll(p)
        \/ ClientDone(p)
        \/ StoreFail(p)
        \/ ExecInsert(p)
        \/ ExecGet(p)
        \/ ExecUpdate(p)
        \/ ExecDelete(p)
        \/ ExecGetAll(p)

Spec == Init /\ [][Next]_vars


\* The program as its HTTP clients drive it: the handlers are the only callers
\* of the repository.
HttpNext ==
    \E p \in Procs :
        \/ createBookHandler(p)
        \/ createBookRespond(p)
        \/ updateBookHandler(p)
        \/ updateBookMerge(p)
        \/ updateBookRespond(p)
        \/ StoreFail(p)
        \/ ExecInsert(p)
        \/ ExecGet(p)
        \/ ExecUpdate(p)

SpecHTTP == Init /\ [][HttpNext]_vars

\* The clients that create and list books.
ListNext ==
    \E p \in Procs :
        \/ createBookHandler(p)
        \/ createBookRespond(p)
        \/ listBooksHandler(p)
        \/ listBooksRespond(p)
        \/ StoreFail(p)
        \/ ExecInsert(p)
        \/ ExecGetAll(p)

SpecList == Init /\ [][ListNext]_vars


\* ------------------------------------------------- N updates of one row
\* The row every caller of the race has read: Dune, as Insert stored it.
RaceRow == InsertRow(FirstId, 0, InsertArgs(Dune))

RaceInit ==
    /\ table = (FirstId :> RaceRow)
    /\ nextId = FirstId + 1
    /\ stmts = 1
    /\ failures = 0
    /\ pool = NewPool(MaxOpenConns)
    /\ pc = [p \in Procs |-> "idle"]
    /\ call = [p \in Procs |-> NoCall]
    /\ ret = [p \in Procs |-> NoRet]
    /\ fresh = (FirstId :> ScanBook(RaceRow))
    /\ HttpInit

\* Each caller builds its update from the row it read, version included.
RaceUpdate(p) ==
    /\ pc[p] = "idle"
    /\ \E title \in {"dune", "emma"}, sales \in {100, 101} :
          UpdateBegin(p, [ScanBook(RaceRow) EXCEPT !.Title = title, !.Sales = sales])
    /\ UNCHANGED http

RaceNext ==
    \E p \in Procs :
        \/ RaceUpdate(p)
        \/ StoreFail(p)
        \/ ExecUpdate(p)

SpecRace == RaceInit /\ [][RaceNext]_vars

\* ------------------------------------------- updates of a row at any version
\* The table as the handlers find it: one row, which writers of the table have
\* brought to some version.
VersionInit ==
    /\ \E version \in InitialVersion..MaxVersion :
          table = (FirstId :> [RaceRow EXCEPT !.version = version])
    /\ nextId = FirstId + 1
    /\ stmts = 0
    /\ failures = 0
    /\ pool = NewPool(MaxOpenConns)
    /\ pc = [p \in Procs |-> "idle"]
    /\ call = [p \in Procs |-> NoCall]
    /\ ret = [p \in Procs |-> NoRet]
    /\ fresh = <<>>
    /\ HttpInit

\* The X-Expected-Version headers of a client that has read the row at
\* version: none, the version or the one after it in decimal, and the version
\* as strconv.FormatInt(version, 32) writes it.
ExpectedVersions(version) ==
    {"", FormatInt(version, 10), FormatInt(version + 1, 10), FormatInt(version, VersionBase)}

\* updateBookHandler, up to its call of Get, for a request that names the row
\* and carries an X-Expected-Version header
updateBookHandlerExpecting(p) ==
    /\ hpc[p] = "idle"
    /\ pc[p] = "idle"
    /\ requests < MaxRequests
    /\ requests' = requests + 1
    /\ \E id \in DOMAIN table :
          \E expected \in ExpectedVersions(table[id].version) :
             updateBookRequest(p, [NoReq EXCEPT !.kind = "update", !.id = id,
                                                !.expected = expected,
                                                !.title = Present("emma")])

VersionNext ==
    \E p \in Procs :
        \/ updateBookHandlerExpecting(p)
        \/ updateBookMerge(p)
        \/ updateBookRespond(p)
        \/ ExecGet(p)
        \/ ExecUpdate(p)

SpecVersion == VersionInit /\ [][VersionNext]_vars

\* ------------------------------------------------------ the validator alone
TitleInputs == {"", "dune", Repeat("x", TitleMaxBytes), LongTitle}

YearInputs == {0, MinYear - 1, MinYear, CurrentYear, CurrentYear + 1}

RuntimeInputs == {-1, 0, 1}

GenresInputs ==
    {NilSlice, Slice(<<>>), Slice(<<"a">>), Slice(<<"a", "a">>),
     Slice(<<"a", "b", "c", "d", "e">>), Slice(<<"a", "b", "c", "d", "e", "f">>)}

SalesInputs == {-1, 0, 100}

PagesInputs == {-1, 0, MaxPages, MaxPages + 1}

ValidateInputs ==
    {Input(title, sales, pages, year, runtime, genres) :
        title \in TitleInputs, sales \in SalesInputs, pages \in PagesInputs,
        year \in YearInputs, runtime \in RuntimeInputs, genres \in GenresInputs}

\* The book createBookHandler builds from the body it has read.
InputBook(r) ==
    [Books EXCEPT !.Title = Value(r.title), !.Sales = Value(r.sales),
                  !.Pages = Value(r.pages), !.Year = Value(r.year),
                  !.Runtime = Value(r.runtime), !.Genres = r.genres]

\* Every handler has read the same body and is about to validate its book.
ValidateInit ==
    /\ RepoInit
    /\ \E b \in ValidateInputs :
          req = [p \in Procs |->
                    [NoReq EXCEPT !.kind = "create", !.title = Present(b.Title),
                                  !.sales = Present(b.Sales), !.pages = Present(b.Pages),
                                  !.year = Present(b.Year), !.runtime = Present(b.Runtime),
                                  !.genres = b.Genres]]
    /\ hpc = [p \in Procs |-> "validate"]
    /\ resp = [p \in Procs |-> NoResp]
    /\ requests = 0

\* v := validator.New(); data.ValidateBook(v, book): v.Errors afterwards
ValidateBookCall(p) ==
    /\ hpc[p] = "validate"
    /\ hpc' = [hpc EXCEPT ![p] = "validated"]
    /\ resp' = [resp EXCEPT ![p] =
                   [NoResp EXCEPT !.errors = Errors(ValidateBook(InputBook(req[p])))]]
    /\ UNCHANGED <<store, repo, req, requests>>

ValidateNext == \E p \in Procs : ValidateBookCall(p)

SpecValidate == ValidateInit /\ [][ValidateNext]_vars

\* ------------------------------------------- deadlines and a small pool
\* -db-max-open-conns leaves one connection fewer than there are callers.
SmallPoolInit ==
    /\ table = <<>>
    /\ nextId = FirstId
    /\ stmts = 0
    /\ failures = 0
    /\ pool = NewPool(NProcs - 1)
    /\ pc = [p \in Procs |-> "idle"]
    /\ call = [p \in Procs |-> NoCall]
    /\ ret = [p \in Procs |-> NoRet]
    /\ fresh = <<>>
    /\ HttpInit

Methods == {"Insert", "Get", "Update", "Delete", "GetAll"}

\* One call of each method of BookModel, on the first row of the table.
MethodBegin(p, op) ==
    CASE op = "Insert" -> InsertBegin(p, Dune)
      [] op = "Get" -> GetBegin(p, FirstId)
      [] op = "Update" -> UpdateBegin(p, [Dune EXCEPT !.ID = FirstId, !.Version = InitialVersion])
      [] op = "Delete" -> DeleteBegin(p, FirstId)
      [] op = "GetAll" -> GetAllBegin(p, "", 0, 0, Slice(<<>>),
                                      [Filters EXCEPT !.Page = 1, !.PageSize = 2, !.Sort = "id",
                                                      !.SortSafelist = SortSafelist])

ClientCall(p) ==
    /\ pc[p] = "idle"
    /\ CanSend
    /\ \E op \in Methods : MethodBegin(p, op)
    /\ UNCHANGED http

DeadlineNext ==
    \E p \in Procs :
        \/ ClientCall(p)
        \/ Acquire(p)
        \/ Tick(p)
        \/ Expire(p)
        \/ ExecInsert(p)
        \/ ExecGet(p)
        \/ ExecUpdate(p)
        \/ ExecDelete(p)
        \/ ExecGetAll(p)

\* The runtime's timers fire; nothing makes the pool or the store answer.
SpecDeadline ==
    /\ SmallPoolInit
    /\ [][DeadlineNext]_vars
    /\ \A p \in Procs : WF_vars(Tick(p)) /\ WF_vars(Expire(p))

\* ------------------------------------------------------------------ claims
\* The step in which the store answers the statement of caller p's call of op.
Answered(p, op) ==
    /\ pc[p] = "stmt"
    /\ pc'[p] = "returned"
    /\ call[p].op = op
    /\ ret'[p].err \notin StoreFailures

\* The stored row of id with the fields and the version of book.
Stored(book, id) ==
    /\ id \in DOMAIN table'
    /\ table'[id] = [table[id] EXCEPT !.title = book.Title, !.year = book.Year,
                                      !.sales = book.Sales, !.pages = book.Pages,
                                      !.runtime = book.Runtime,
                                      !.genres = book.Genres.elems,
                                      !.version = book.Version]

\* C1: Update(book) is a compare-and-swap.  When the stored row of book.ID has
\* the version book.Version, the row takes the supplied title, year, sales,
\* pages, runtime and genres, its version becomes book.Version + 1, that version
\* is written into book.Version and Update succeeds; otherwise no row changes
\* and Update does not succeed.
C1_UpdateIsCompareAndSwap ==
    [][\A p \in Procs :
          Answered(p, "Update") =>
              LET book == call[p].book
                  swapped == [book EXCEPT !.Version = book.Version + 1]
              IN  IF book.ID \in DOMAIN table /\ table[book.ID].version = book.Version
                  THEN /\ ret'[p].err = "nil"
                       /\ ret'[p].book = Ptr(swapped)
                       /\ Stored(swapped, book.ID)
                       /\ \A id \in DOMAIN table \ {book.ID} :
                             id \in DOMAIN table' /\ table'[id] = table[id]
                  ELSE /\ ret'[p].err # "nil"
                       /\ table' = table]_vars

\* C2: when every one of the N >= 2 callers that read the same row at the same
\* version has returned from its Update, exactly one of them succeeded, the
\* others returned ErrEditConflict, and the stored version is the read one + 1.
C2_ExactlyOneUpdateWins ==
    (\A p \in Procs : pc[p] = "returned" /\ ret[p].err \notin StoreFailures) =>
        /\ Cardinality({p \in Procs : ret[p].err = "nil"}) = 1
        /\ \A p \in Procs : ret[p].err \in {"nil", "ErrEditConflict"}
        /\ table[FirstId].version = RaceRow.version + 1

\* C3: an Update that finds no row with id book.ID and version book.Version
\* returns ErrEditConflict and leaves every row as it was.
C3_NoMatchIsEditConflict ==
    [][\A p \in Procs :
          (/\ Answered(p, "Update")
           /\ ~(/\ call[p].book.ID \in DOMAIN table
                /\ table[call[p].book.ID].version = call[p].book.Version))
          => (ret'[p].err = "ErrEditConflict" /\ table' = table)]_vars


\* The entity has the fields of the row.
SameAsRow(book, row) ==
    /\ book.ID = row.id
    /\ book.CreatedAt = row.created_at
    /\ book.Title = row.title
    /\ book.Sales = row.sales
    /\ book.Pages = row.pages
    /\ book.Year = row.year
    /\ book.Runtime = row.runtime
    /\ book.Genres = Slice(row.genres)
    /\ book.Version = row.version

\* C4: a Get of the id that Insert wrote back for a valid book, answered with no
\* Update or Delete of that row in between, returns the inserted title, sales,
\* pages, year, runtime and genres, the id Insert wrote back, and version 1.
C4_InsertThenGet ==
    [][\A p \in Procs :
          (/\ Answered(p, "Get")
           /\ call[p].id \in DOMAIN fresh
           /\ ValidateBook(fresh[call[p].id]) = <<>>)
          => LET inserted == fresh[call[p].id]
             IN  /\ ret'[p].err = "nil"
                 /\ ret'[p].book # NilBook
                 /\ ret'[p].book[1].Title = inserted.Title
                 /\ ret'[p].book[1].Sales = inserted.Sales
                 /\ ret'[p].book[1].Pages = inserted.Pages
                 /\ ret'[p].book[1].Year = inserted.Year
                 /\ ret'[p].book[1].Runtime = inserted.Runtime
                 /\ ret'[p].book[1].Genres = inserted.Genres
                 /\ ret'[p].book[1].ID = inserted.ID
                 /\ ret'[p].book[1].ID = call[p].id
                 /\ ret'[p].book[1].Version = 1]_vars

C4_Witness ==
    \E p \in Procs :
        /\ pc[p] = "returned"
        /\ call[p].op = "Get"
        /\ call[p].id \in DOMAIN fresh
        /\ fresh[call[p].id].Title = "emma"
        /\ ret[p].err = "nil"
        /\ ret[p].book[1].Pages = MaxPages

\* C5: a Get of an id >= 1 returns ErrRecordNotFound (and no book) when no row
\* has the id, the stored row when one has, and, when the store fails, the
\* store's error, which is neither nil nor ErrRecordNotFound.
C5_GetFoundOrNotFound ==
    [][\A p \in Procs :
          (pc[p] = "stmt" /\ pc'[p] = "returned" /\ call[p].op = "Get" /\ call[p].id >= 1)
          => \/ /\ ret'[p].err \in StoreFailures
                /\ ret'[p].err \notin {"nil", "ErrRecordNotFound"}
                /\ ret'[p].book = NilBook
             \/ /\ call[p].id \notin DOMAIN table
                /\ ret'[p].err = "ErrRecordNotFound"
                /\ ret'[p].book = NilBook
             \/ /\ call[p].id \in DOMAIN table
                /\ ret'[p].err = "nil"
                /\ ret'[p].book # NilBook
                /\ SameAsRow(ret'[p].book[1], table[call[p].id])]_vars

\* A Get of a row that was inserted and deleted again.
C5_Witness ==
    \E p \in Procs :
        /\ pc[p] = "returned"
        /\ call[p].op = "Get"
        /\ call[p].id >= 1
        /\ call[p].id < nextId
        /\ ret[p].err = "ErrRecordNotFound"

\* C6: a Get of an id < 1 returns ErrRecordNotFound in the step that calls it:
\* the store receives no statement, no connection leaves the pool, and the call
\* is never one that waits for the pool or the store.
C6_GetBelowOneIsShortCircuit ==
    /\ [][\A p \in Procs :
             (pc[p] = "idle" /\ call'[p].op = "Get" /\ call'[p].id < 1)
             => /\ pc'[p] = "returned"
                /\ ret'[p] = [NoRet EXCEPT !.err = "ErrRecordNotFound"]
                /\ stmts' = stmts
                /\ pool' = pool
                /\ table' = table]_vars
    /\ [](\A p \in Procs :
             (call[p].op = "Get" /\ call[p].id < 1) => (pc[p] = "returned" /\ p \notin pool.acquired))

C6_Witness ==
    \E p \in Procs :
        /\ pc[p] = "returned"
        /\ call[p].op = "Get"
        /\ call[p].id < 1
        /\ ret[p].err = "ErrRecordNotFound"
        /\ table # <<>>

\* C7: an answered Delete of an id >= 1 removes the row and succeeds when the
\* row exists, and returns ErrRecordNotFound with no row changed when it does
\* not; a row that is gone stays gone, so a later Delete of it returns
\* ErrRecordNotFound; and no two Deletes of one id both succeed.
C7_DeleteOnceThenNotFound ==
    /\ [][\A p \in Procs :
             (Answered(p, "Delete") /\ call[p].id >= 1)
             => IF call[p].id \in DOMAIN table
                THEN /\ ret'[p].err = "nil"
                     /\ table' = Without(table, call[p].id)
                ELSE /\ ret'[p].err = "ErrRecordNotFound"
                     /\ table' = table]_vars
    /\ [][\A id \in 1..(nextId - 1) : id \notin DOMAIN table => id \notin DOMAIN table']_vars
    /\ [](\A p, q \in Procs :
             (/\ p # q
              /\ pc[p] = "returned" /\ call[p].op = "Delete" /\ ret[p].err = "nil"
              /\ pc[q] = "returned" /\ call[q].op = "Delete" /\ call[q].id = call[p].id)
             => ret[q].err # "nil")

\* Two Deletes of one row: the first succeeded, the second found nothing.
C7_Witness ==
    \E p, q \in Procs :
        /\ pc[p] = "returned" /\ call[p].op = "Delete" /\ ret[p].err = "nil"
        /\ pc[q] = "returned" /\ call[q].op = "Delete" /\ call[q].id = call[p].id
        /\ ret[q].err = "ErrRecordNotFound"


\* C8: every stored row satisfies every rule of ValidateBook, and every book a
\* handler passes to Insert or Update does: no sequence of create and update
\* requests stores a book that fails validation.
C8_StoredBooksAreValid ==
    /\ \A id \in DOMAIN table : ValidateBook(ScanBook(table[id])) = <<>>
    /\ \A p \in Procs :
          call[p].op \in {"Insert", "Update"} => ValidateBook(call[p].book) = <<>>

\* A row is stored, one request was refused as invalid, and an update that
\* passed validation has called Update.
C8_Witness ==
    /\ table # <<>>
    /\ \E p, q \in Procs :
          /\ resp[p].status = 422
          /\ call[q].op = "Update"
          /\ call[q].book.Title = "emma"

\* C9: every GetAll the store answers succeeds, and the total it computes the
\* metadata from is the number of rows that match the title and genre filters
\* in the whole table, whatever the page and the page size.
C9_TotalIsMatchCount ==
    [][\A p \in Procs :
          Answered(p, "GetAll")
          => /\ ret'[p].err = "nil"
             /\ ret'[p].metadata.TotalRecords
                   = Cardinality(Search(table, call[p].title, call[p].genres))]_vars

\* The rows of the table in the requested order, cut to the requested page.
PageOfAll(filters) ==
    LET rows == OrderBy({table[id] : id \in DOMAIN table}, TrimDash(filters.Sort),
                        IF HasDash(filters.Sort) THEN "DESC" ELSE "ASC")
        first == (filters.Page - 1) * filters.PageSize + 1
        last == Min(Len(rows), filters.Page * filters.PageSize)
    IN  [i \in 1..(last - first + 1) |-> ScanBook(rows[first + i - 1])]

\* C10: a GetAll with an empty title and no genres, answered by the store,
\* returns the rows at positions (page-1)*pageSize .. page*pageSize-1 of all
\* stored rows ordered by the requested field and direction, then by id.
C10_ListAllSortedAndPaged ==
    [][\A p \in Procs :
          (Answered(p, "GetAll") /\ call[p].title = "" /\ call[p].genres.elems = <<>>)
          => /\ ret'[p].err = "nil"
             /\ ret'[p].books = Slice(PageOfAll(call[p].filters))]_vars

\* C11: no call is in flight for more than the 3 units of its deadline; a call
\* still in flight when the deadline expires returns the context's deadline
\* error and its statement has changed no row; every call in flight returns;
\* and a call that has returned holds no connection.
C11_DeadlineEndsEveryCall ==
    /\ [](\A p \in Procs : call[p].elapsed <= DeadlineUnits)
    /\ [][\A p \in Procs :
             (pc[p] \in {"acquire", "stmt"} /\ ~InTime(p) /\ pc'[p] # pc[p])
             => /\ pc'[p] \in {"stmt", "returned"}
                /\ pc'[p] = "returned" => ret'[p].err = "ErrDeadline"
                /\ table' = table]_vars
    /\ \A p \in Procs : (pc[p] \in {"acquire", "stmt"}) ~> (pc[p] = "returned")
    /\ [](\A p \in Procs : pc[p] \in {"idle", "returned"} => p \notin pool.acquired)

\* A call that held the connection for the whole of its deadline has returned
\* the deadline error, and the caller that waited for that connection has it.
C11_Witness ==
    \E p, q \in Procs :
        /\ pc[p] = "returned"
        /\ call[p].op \in {"Insert", "Get", "Update", "Delete", "GetAll"}
        /\ call[p].elapsed = DeadlineUnits
        /\ ret[p].err = "ErrDeadline"
        /\ p \notin pool.acquired
        /\ pc[q] = "stmt"
        /\ call[q].elapsed > 0

\* C12: a row enters the table at version 1, and in every step the version of
\* a row that stays in the table is raised by exactly 1 when the step is an
\* Update of that row returning success, and is unchanged otherwise; so the
\* version is always 1 plus the number of Updates of the row that succeeded.
C12_VersionCountsUpdates ==
    [][/\ \A id \in DOMAIN table' \ DOMAIN table : table'[id].version = InitialVersion
       /\ \A id \in DOMAIN table \cap DOMAIN table' :
             table'[id].version =
                IF \E p \in Procs : /\ Answered(p, "Update")
                                    /\ call[p].book.ID = id
                                    /\ ret'[p].err = "nil"
                THEN table[id].version + 1
                ELSE table[id].version]_vars

\* An Update of a stored row, built from the version the row has, has returned
\* without success, and the row is at the version Insert gave it.
C12_Witness ==
    \E p \in Procs, id \in DOMAIN table :
        /\ pc[p] = "returned"
        /\ call[p].op = "Update"
        /\ call[p].book.ID = id
        /\ call[p].book.Version = table[id].version
        /\ ret[p].err # "nil"
        /\ table[id].version = InitialVersion

\* The fields of book that break a rule of the data model.
ViolatedFields(book) ==
    {f \in {"title", "year", "runtime", "genres", "sales", "pages"} :
        CASE f = "title" -> book.Title = "" \/ Len(book.Title) > 500
          [] f = "year" -> book.Year = 0 \/ book.Year < 1888 \/ book.Year > CurrentYear
          [] f = "runtime" -> ~(book.Runtime > 0)
          [] f = "genres" -> \/ book.Genres.nil
                             \/ Len(book.Genres.elems) \notin 1..5
                             \/ \E i, j \in DOMAIN book.Genres.elems :
                                   i # j /\ book.Genres.elems[i] = book.Genres.elems[j]
          [] f = "sales" -> book.Sales < 0
          [] f = "pages" -> book.Pages \notin 0..10000}

\* C13: the fields ValidateBook reports an error for are exactly the fields of
\* the book that violate a rule, all of them together, and none when the book
\* violates no rule.
C13_ReportsExactlyViolatedFields ==
    \A p \in Procs :
        hpc[p] = "validated" =>
            DOMAIN resp[p].errors = ViolatedFields(InputBook(req[p]))

\* A book that breaks a rule of every field has been validated, and every
\* field is reported.
C13_Witness ==
    \E p \in Procs :
        /\ hpc[p] = "validated"
        /\ ViolatedFields(InputBook(req[p])) =
              {"title", "year", "runtime", "genres", "sales", "pages"}
        /\ DOMAIN resp[p].errors = {"title", "year", "runtime", "genres", "sales", "pages"}

\* C14: every call of GetAll carries filters that pass validation (a sort
\* value of the handler's safelist, which sortColumn resolves, a page of at
\* least 1, a page size within 1..100); and the step that answers a list
\* request with a validation failure starts no repository call, sends no
\* statement and takes no connection.
C14_GetAllOnlyFromSafelist ==
    /\ [](\A p \in Procs :
             call[p].op = "GetAll" =>
                /\ \E i \in DOMAIN SortSafelist : SortSafelist[i] = call[p].filters.Sort
                /\ call[p].filters.SortSafelist = SortSafelist
                /\ sortColumn(call[p].filters) \in {"id", "title", "sales", "pages", "year", "runtime"}
                /\ sortDirection(call[p].filters) \in {"ASC", "DESC"}
                /\ call[p].filters.Page >= 1
                /\ call[p].filters.PageSize \in 1..100)
    /\ [][\A p \in Procs :
             (/\ resp'[p] # resp[p]
              /\ resp'[p].status = 422
              /\ DOMAIN resp'[p].errors \cap {"page", "page_size", "sort"} # {})
             => /\ pc[p] = "idle"
                /\ pc'[p] = "idle"
                /\ call'[p] = NoCall
                /\ stmts' = stmts
                /\ pool' = pool]_vars

\* One list request has been refused for its sort value, and the GetAll of
\* another, sorted by a safelisted value, has been answered.
C14_Witness ==
    \E p, q \in Procs :
        /\ resp[p].status = 422
        /\ "sort" \in DOMAIN resp[p].errors
        /\ hpc[q] = "list"
        /\ pc[q] = "returned"
        /\ call[q].op = "GetAll"
        /\ call[q].filters.Sort = "-title"

\* C15: a GetAll the store answers while no row matches its title and genre
\* filters returns a nil error, an empty sequence of books that is not nil,
\* and Metadata whose fields are all zero.
C15_NoMatchIsEmptyPage ==
    [][\A p \in Procs :
          (Answered(p, "GetAll") /\ Search(table, call[p].title, call[p].genres) = {})
          => /\ ret'[p].err = "nil"
             /\ ret'[p].books = Slice(<<>>)
             /\ ret'[p].metadata = Metadata]_vars

\* The field of the request when it is present, the fetched one otherwise.
Either(field, fetched) == IF field # Absent THEN field[1] ELSE fetched

\* What the update handler is to pass to Update for request r on the entity
\* Get fetched: the present fields of r, and the rest as fetched.
Patched(fetched, r) ==
    [ID |-> fetched.ID, CreatedAt |-> fetched.CreatedAt, Version |-> fetched.Version,
     Title |-> Either(r.title, fetched.Title), Sales |-> Either(r.sales, fetched.Sales),
     Pages |-> Either(r.pages, fetched.Pages), Year |-> Either(r.year, fetched.Year),
     Runtime |-> Either(r.runtime, fetched.Runtime),
     Genres |-> IF r.genres.nil THEN fetched.Genres ELSE r.genres]

\* C16: the update handler first calls Get with the id of the request; when
\* it goes on from the entity Get fetched, it either calls Update with that
\* entity patched by the fields present in the request (id, creation time and
\* version as fetched), which then passes validation, or it answers without
\* calling anything; it answers with a validation failure only when the patched
\* entity fails validation; and Update is called at no other time.
C16_PartialUpdate ==
    /\ [][\A p \in Procs :
             (hpc[p] = "idle" /\ hpc'[p] = "get")
             => call'[p] = [NoCall EXCEPT !.op = "Get", !.id = req'[p].id]]_vars
    /\ [][\A p \in Procs :
             (hpc[p] = "get" /\ hpc'[p] # "get" /\ ret[p].err = "nil")
             => LET patched == Patched(ret[p].book[1], req[p])
                IN  \/ /\ hpc'[p] = "update"
                       /\ call'[p] = [NoCall EXCEPT !.op = "Update", !.book = patched]
                       /\ ValidateBook(patched) = <<>>
                    \/ /\ hpc'[p] = "idle"
                       /\ call'[p] = NoCall
                       /\ resp'[p].status \in {400, 409, 422}
                       /\ resp'[p].status = 422 <=>
                             (/\ ValidateBook(patched) # <<>>
                              /\ req[p].readable
                              /\ resp'[p].status # 409)]_vars
    /\ [](\A p \in Procs : call[p].op = "Update" => hpc[p] = "update")

\* Update has been called with the fetched row patched by a request that
\* carries a title, a sales figure and genres and nothing else.
C16_Witness ==
    \E p \in Procs :
        /\ hpc[p] = "update"
        /\ call[p].op = "Update"
        /\ req[p].title = Present("emma")
        /\ req[p].year = Absent
        /\ call[p].book.ID \in DOMAIN table
        /\ call[p].book.Title = "emma"
        /\ call[p].book.Sales = 7
        /\ call[p].book.Genres = Slice(<<"drama">>)
        /\ call[p].book.Year = table[call[p].book.ID].year
        /\ call[p].book.Version = table[call[p].book.ID].version

\* C17: a step changes the table only when it is a call returning a nil
\* error that is an Insert (one row more, under an id no row had, the others as
\* they were), an Update (the row of its id replaced, the others as they were)
\* or a Delete (the row of its id gone, the others as they were); so no Get, no
\* GetAll and no call returning an error changes a row.
C17_OnlyWritesChangeRows ==
    [][table' # table =>
         \E p \in Procs :
            /\ pc[p] = "stmt"
            /\ pc'[p] = "returned"
            /\ ret'[p].err = "nil"
            /\ \/ /\ call[p].op = "Insert"
                  /\ \E id \in DOMAIN table' \ DOMAIN table :
                        DOMAIN table' = DOMAIN table \cup {id}
                  /\ \A id \in DOMAIN table : table'[id] = table[id]
               \/ /\ call[p].op = "Update"
                  /\ DOMAIN table' = DOMAIN table
                  /\ \A id \in DOMAIN table \ {call[p].book.ID} : table'[id] = table[id]
               \/ /\ call[p].op = "Delete"
                  /\ DOMAIN table' = DOMAIN table \ {call[p].id}
                  /\ call[p].id \in DOMAIN table
                  /\ \A id \in DOMAIN table' : table'[id] = table[id]]_vars

\* A Delete has removed the row Insert added, and a call of another caller has
\* returned an error.
C17_Witness ==
    \E p, q \in Procs :
        /\ pc[p] = "returned"
        /\ call[p].op = "Delete"
        /\ ret[p].err = "nil"
        /\ call[p].id \notin DOMAIN table
        /\ pc[q] = "returned"
        /\ ret[q].err \notin {"nil", "none"}

\* C18: the callers that hold a connection are exactly the callers whose
\* statement is with the store, each holding one; their number never exceeds
\* the pool's maximum; and when no call is waiting or running, no connection
\* is in use.
C18_ConnectionsReleased ==
    /\ Cardinality(pool.acquired) <= pool.MaxConns
    /\ \A p \in Procs : p \in pool.acquired <=> pc[p] = "stmt"
    /\ (\A p \in Procs : pc[p] \in {"idle", "returned"}) => pool.acquired = {}

\* A call has returned successfully and holds nothing, and the pool, exhausted
\* again, has handed a connection to another caller.
C18_Witness ==
    \E p, q \in Procs :
        /\ pc[p] = "returned"
        /\ ret[p].err = "nil"
        /\ p \notin pool.acquired
        /\ pc[q] = "stmt"
        /\ q \in pool.acquired
        /\ Cardinality(pool.acquired) = pool.MaxConns

C21_IdsAreFreshAndFixed ==
    /\ [](\A id \in DOMAIN table :
             /\ table[id].id = id
             /\ id >= 1
             /\ id < nextId)
    /\ [](\A p \in Procs :
             (call[p].op = "Insert" /\ ret[p].err = "nil")
             => (ret[p].book[1].ID >= 1 /\ ret[p].book[1].ID < nextId))
    /\ [][/\ nextId' >= nextId
          /\ \A id \in DOMAIN table \cap DOMAIN table' : table'[id].id = table[id].id
          /\ \A p \in Procs :
                (Answered(p, "Insert") /\ ret'[p].err = "nil")
                => /\ ret'[p].book[1].ID = nextId
                   /\ nextId' > nextId
                   /\ nextId \notin DOMAIN table
                   /\ DOMAIN table' = DOMAIN table \cup {nextId}
                   /\ table'[nextId].id = nextId]_vars

\* The first row has been deleted, and the Insert after that has been given
\* the second id, not the first again.
C21_Witness ==
    \E p, q \in Procs :
        /\ pc[q] = "returned"
        /\ call[q].op = "Delete"
        /\ call[q].id = FirstId
        /\ ret[q].err = "nil"
        /\ pc[p] = "returned"
        /\ call[p].op = "Insert"
        /\ ret[p].err = "nil"
        /\ ret[p].book[1].ID = FirstId + 1
        /\ DOMAIN table = {FirstId + 1}
        /\ nextId = FirstId + 2

====
